---- MODULE Spec2Model ----
(***************************************************************************)
(* Model of x_make_telemetry_vector_x: the TelemetryEvent schema and       *)
(* normalize_payload (src/src/x_make_telemetry_vector_x/__init__.py).      *)
(*                                                                         *)
(* Python values are tagged records ([t |-> "str", v |-> <<chars>>], ...); *)
(* strings are sequences of one-character strings so that strip, replace,  *)
(* isoformat and fromisoformat work on characters.  A datetime is the      *)
(* record [year, month, day, hour, minute, second, microsecond, aware,     *)
(* offset], offset being the UTC offset in seconds of an aware value.      *)
(***************************************************************************)
EXTENDS Integers, Sequences, FiniteSets, TLC

VARIABLES
    pc,                 \* "idle", "called", "repeated", "refed"
    event,              \* the event argument of the last call
    telemetry_version,  \* the telemetry_version argument (NoneVal or a str)
    ingested_at,        \* the ingested_at argument (NoneVal or a datetime)
    now,                \* the wall clock, in seconds after ClockEpoch
    tzlocal,            \* the platform's local UTC offset, in minutes
    result,             \* the outcome of the last call
    first,              \* the outcome of the call before it (Repeat, Refeed)
    firstAt             \* the wall clock at the call of Call

vars == <<pc, event, telemetry_version, ingested_at, now, tzlocal, result, first,
          firstAt>>

----------------------------------------------------------------------------
(* Bounds of the model. *)

\* longest id / source / action string drawn as input
MaxLen == 2
\* wall-clock ticks the clock may advance
MaxTicks == 2
\* longest fractional-second part of an input timestamp string
MaxFracLen == 7
\* largest decimal exponent of a numeric epoch input (value 10^e)
MaxExp == 20

----------------------------------------------------------------------------
(* Characters and strings. *)

DigitChars == <<"0", "1", "2", "3", "4", "5", "6", "7", "8", "9">>

IsDigit(c) == \E i \in 1..10 : DigitChars[i] = c

DigitVal(c) == (CHOOSE i \in 1..10 : DigitChars[i] = c) - 1

\* str.strip() removes these from both ends
Whitespace == {" ", "\t", "\n"}

RECURSIVE LStrip(_)
LStrip(s) ==
    IF s # <<>> /\ Head(s) \in Whitespace THEN LStrip(Tail(s)) ELSE s

RECURSIVE RStrip(_)
RStrip(s) ==
    IF s # <<>> /\ s[Len(s)] \in Whitespace
    THEN RStrip(SubSeq(s, 1, Len(s) - 1))
    ELSE s

Strip(s) == RStrip(LStrip(s))

StartsWith(s, p) == Len(s) >= Len(p) /\ SubSeq(s, 1, Len(p)) = p

EndsWith(s, p) ==
    Len(s) >= Len(p) /\ SubSeq(s, Len(s) - Len(p) + 1, Len(s)) = p

\* str.replace(old, new): every non-overlapping occurrence, left to right
RECURSIVE Replace(_, _, _)
Replace(s, old, new) ==
    IF s = <<>> THEN <<>>
    ELSE IF StartsWith(s, old)
         THEN new \o Replace(SubSeq(s, Len(old) + 1, Len(s)), old, new)
         ELSE <<Head(s)>> \o Replace(Tail(s), old, new)

\* "%0<width>d" of a natural number
RECURSIVE Pad(_, _)
Pad(n, width) ==
    IF width = 0 THEN <<>>
    ELSE Pad(n \div 10, width - 1) \o <<DigitChars[(n % 10) + 1]>>

AllDigits(s) == \A i \in 1..Len(s) : IsDigit(s[i])

RECURSIVE ToNat(_)
ToNat(s) ==
    IF s = <<>> THEN 0
    ELSE 10 * ToNat(SubSeq(s, 1, Len(s) - 1)) + DigitVal(s[Len(s)])

----------------------------------------------------------------------------
(* The proleptic Gregorian calendar of the datetime module. *)

MINYEAR == 1
MAXYEAR == 9999
\* date(9999, 12, 31).toordinal()
MaxOrdinal == 3652059
\* date(1970, 1, 1).toordinal()
EpochOrdinal == 719163
SecondsPerDay == 86400

IsLeap(y) == y % 4 = 0 /\ (y % 100 # 0 \/ y % 400 = 0)

DaysInMonth(y, m) ==
    IF m = 2 THEN (IF IsLeap(y) THEN 29 ELSE 28)
    ELSE IF m \in {4, 6, 9, 11} THEN 30 ELSE 31

DaysBeforeYear(y) ==
    (y - 1) * 365 + (y - 1) \div 4 - (y - 1) \div 100 + (y - 1) \div 400

RECURSIVE DaysBeforeMonth(_, _)
DaysBeforeMonth(y, m) ==
    IF m = 1 THEN 0 ELSE DaysBeforeMonth(y, m - 1) + DaysInMonth(y, m - 1)

Ymd2Ord(y, m, d) == DaysBeforeYear(y) + DaysBeforeMonth(y, m) + d

\* the year holding ordinal day n (1 = 0001-01-01)
Ord2Year(n) ==
    LET n0   == n - 1
        n400 == n0 \div 146097
        r400 == n0 % 146097
        n100 == r400 \div 36524
        r100 == r400 % 36524
        n4   == r100 \div 1461
        r4   == r100 % 1461
        n1   == r4 \div 365
        y    == n400 * 400 + n100 * 100 + n4 * 4 + n1 + 1
    IN  IF n1 = 4 \/ n100 = 4 THEN y - 1 ELSE y

Ord2Ymd(n) ==
    LET in_month(y, doy, m) ==
            [year |-> y, month |-> m, day |-> doy - DaysBeforeMonth(y, m)]
        in_year(y, doy) ==
            in_month(y, doy,
                     CHOOSE k \in 1..12 :
                         /\ DaysBeforeMonth(y, k) < doy
                         /\ doy <= DaysBeforeMonth(y, k) + DaysInMonth(y, k))
        of_year(y) == in_year(y, n - DaysBeforeYear(y))
    IN  of_year(Ord2Year(n))

----------------------------------------------------------------------------
(* Results of library calls: a value, or a raised exception. *)

Ok(v) == [ok |-> TRUE, v |-> v]

Raise(exc, msg) == [ok |-> FALSE, exc |-> exc, msg |-> msg]

----------------------------------------------------------------------------
(* datetime values. *)

DateTime(y, mo, d, h, mi, s, us, aware, offset) ==
    [t |-> "datetime", year |-> y, month |-> mo, day |-> d,
     hour |-> h, minute |-> mi, second |-> s, microsecond |-> us,
     aware |-> aware, offset |-> offset]

\* value.replace(tzinfo=UTC)
ReplaceTzUTC(dt) == [dt EXCEPT !.aware = TRUE, !.offset = 0]

\* the constructor's range checks (ValueError)
ValidFields(y, mo, d, h, mi, s, us) ==
    /\ y \in MINYEAR..MAXYEAR
    /\ mo \in 1..12
    /\ d >= 1 /\ d <= DaysInMonth(y, mo)
    /\ h \in 0..23 /\ mi \in 0..59 /\ s \in 0..59
    /\ us \in 0..999999

\* ordinal day and second of day -> an aware UTC datetime
FromOrdinal(ord, sod, us) ==
    LET on(ymd) ==
            DateTime(ymd.year, ymd.month, ymd.day,
                     sod \div 3600, (sod % 3600) \div 60, sod % 60, us, TRUE, 0)
    IN  on(Ord2Ymd(ord))

RECURSIVE Pow10(_)
Pow10(e) == IF e = 0 THEN 1 ELSE 10 * Pow10(e - 1)

\* A number is m * 10^e (+ us microseconds for a float); m fits 32 bits and,
\* for e > 0, so does m * 10^(e-2).  The platform limits, by magnitude:
\*   |v| >= 2^63 (time_t)                -> OverflowError   (e >= 19)
\*   gmtime's year overflows a C int     -> OSError         (e in 17..18)
\*   year outside 1..9999                -> ValueError
TimeTExp == 19
GmtimeExp == 17
YearExp == 12

\* datetime.fromtimestamp(value, tz=UTC)
FromTimestamp(value) ==
    IF value.t = "nan" THEN Raise("ValueError", "Invalid value NaN")
    ELSE IF value.t = "inf" THEN Raise("OverflowError", "timestamp out of range")
    ELSE LET m  == IF value.t = "bool" THEN (IF value.b THEN 1 ELSE 0) ELSE value.m
             e  == IF value.t = "bool" THEN 0 ELSE value.e
             us == IF value.t = "float" THEN value.us ELSE 0
         IN  IF m # 0 /\ e >= TimeTExp
             THEN Raise("OverflowError", "timestamp out of range")
             ELSE IF m # 0 /\ e >= GmtimeExp
             THEN Raise("OSError", "Value too large for defined data type")
             ELSE IF m # 0 /\ e >= YearExp
             THEN Raise("ValueError", "year is out of range")
             ELSE LET at(ord, sod) ==
                          IF ord < 1 \/ ord > MaxOrdinal
                          THEN Raise("ValueError", "year is out of range")
                          ELSE Ok(FromOrdinal(ord, sod, us))
                      split(q) ==
                          IF e >= 2
                          THEN at(EpochOrdinal + q \div 864, (q % 864) * 100)
                          ELSE at(EpochOrdinal + q \div SecondsPerDay,
                                  q % SecondsPerDay)
                  IN  split(m * Pow10(IF e >= 2 THEN e - 2 ELSE e))

\* dt.astimezone(UTC); a naive dt is taken to be in the platform's local zone
AsTimezoneUTC(dt, local) ==
    LET off == IF dt.aware THEN dt.offset ELSE local * 60
        at(ord, sod) ==
            IF ord < 1 \/ ord > MaxOrdinal
            THEN Raise("OverflowError", "date value out of range")
            ELSE Ok(FromOrdinal(ord, sod, dt.microsecond))
        shift(total) ==
            at(Ymd2Ord(dt.year, dt.month, dt.day) + total \div SecondsPerDay,
               total % SecondsPerDay)
    IN  IF dt.aware /\ dt.offset = 0 THEN Ok(dt)
        ELSE shift(dt.hour * 3600 + dt.minute * 60 + dt.second - off)

\* the utcoffset part of isoformat(): +HH:MM[:SS]
FormatOffset(off) ==
    LET a == IF off < 0 THEN -off ELSE off
    IN  <<IF off < 0 THEN "-" ELSE "+">>
        \o Pad(a \div 3600, 2) \o <<":">> \o Pad((a % 3600) \div 60, 2)
        \o (IF a % 60 # 0 THEN <<":">> \o Pad(a % 60, 2) ELSE <<>>)

\* dt.isoformat()
IsoFormat(dt) ==
    Pad(dt.year, 4) \o <<"-">> \o Pad(dt.month, 2) \o <<"-">> \o Pad(dt.day, 2)
    \o <<"T">>
    \o Pad(dt.hour, 2) \o <<":">> \o Pad(dt.minute, 2) \o <<":">> \o Pad(dt.second, 2)
    \o (IF dt.microsecond # 0 THEN <<".">> \o Pad(dt.microsecond, 6) ELSE <<>>)
    \o (IF dt.aware THEN FormatOffset(dt.offset) ELSE <<>>)

----------------------------------------------------------------------------
(* datetime.fromisoformat, as the C implementation scans the string.       *)
(* Positions are 1-based; reading past the end yields the terminator.      *)

NUL == "NUL"

At(s, i) == IF i >= 1 /\ i <= Len(s) THEN s[i] ELSE NUL

\* parse_digits: n digits at position p, or failure
ParseDigits(s, p, n) ==
    IF \A k \in 0..(n - 1) : IsDigit(At(s, p + k))
    THEN [ok |-> TRUE, val |-> ToNat(SubSeq(s, p, p + n - 1)), next |-> p + n]
    ELSE [ok |-> FALSE, val |-> 0, next |-> p]

\* first position at or after p that holds no digit
RECURSIVE SkipDigits(_, _)
SkipDigits(s, p) == IF IsDigit(At(s, p)) THEN SkipDigits(s, p + 1) ELSE p

\* _find_isoformat_datetime_separator: the length of the date part
\* (0 where the C code answers -1)
FindSeparator(s) ==
    LET len == Len(s)
    IN  IF len = 7 THEN 7
        ELSE IF s[5] = "-"
        THEN IF s[6] = "W"
             THEN IF len < 8 THEN 0
                  ELSE IF len > 8 /\ s[9] = "-"
                  THEN IF len = 9 THEN 0
                       ELSE IF len > 10 /\ IsDigit(s[11]) THEN 8
                       ELSE 10
                  ELSE 8
             ELSE 10
        ELSE IF s[5] = "W"
             THEN LET idx == SkipDigits(s, 8) - 1
                  IN  IF idx < 9 THEN idx
                      ELSE IF idx % 2 = 0 THEN 7 ELSE 8
             ELSE 8

\* 0 = Monday
Weekday(y, m, d) == (Ymd2Ord(y, m, d) + 6) % 7

\* iso_to_ymd: the date of ISO year, week, weekday, or failure
IsoToYmd(iso_year, iso_week, iso_day) ==
    LET week_ok(first_weekday) ==
            /\ iso_year \in MINYEAR..MAXYEAR
            /\ iso_week > 0
            /\ \/ iso_week < 53
               \/ /\ iso_week = 53
                  /\ \/ first_weekday = 3
                     \/ first_weekday = 2 /\ IsLeap(iso_year)
        on(ok, ord) ==
            IF ~ok \/ iso_day <= 0 \/ iso_day >= 8 \/ ord < 1 \/ ord > MaxOrdinal
            THEN [ok |-> FALSE, year |-> 0, month |-> 0, day |-> 0]
            ELSE [ok |-> TRUE] @@ Ord2Ymd(ord)
        week1(first_day, first_weekday) ==
            on(week_ok(first_weekday),
               first_day - first_weekday + (IF first_weekday > 3 THEN 7 ELSE 0)
               + (iso_week - 1) * 7 + iso_day - 1)
    IN  week1(Ymd2Ord(iso_year, 1, 1), Weekday(iso_year, 1, 1))

\* parse_isoformat_date over the first len characters
ParseIsoDate(s, len) ==
    LET bad == [ok |-> FALSE, year |-> 0, month |-> 0, day |-> 0]
        uses_separator == At(s, 5) = "-"
        p1  == IF uses_separator THEN 6 ELSE 5
        \* the position after an optional "-" at p
        past(p) == IF uses_separator THEN p + 1 ELSE p
        week_day(y, w, d) ==
            IF ~d.ok THEN bad ELSE IsoToYmd(y.val, w.val, d.val)
        of_week(y, w) ==
            IF ~w.ok THEN bad
            ELSE IF w.next - 1 < len
            THEN IF uses_separator /\ At(s, w.next) # "-" THEN bad
                 ELSE week_day(y, w, ParseDigits(s, past(w.next), 1))
            ELSE week_day(y, w, [ok |-> TRUE, val |-> 1, next |-> w.next])
        month_day(y, mo, d) ==
            IF ~d.ok THEN bad
            ELSE [ok |-> TRUE, year |-> y.val, month |-> mo.val, day |-> d.val]
        of_month(y, mo) ==
            IF ~mo.ok THEN bad
            ELSE IF uses_separator /\ At(s, mo.next) # "-" THEN bad
            ELSE month_day(y, mo, ParseDigits(s, past(mo.next), 2))
        of_year(y) ==
            IF ~y.ok THEN bad
            ELSE IF At(s, p1) = "W" THEN of_week(y, ParseDigits(s, p1 + 1, 2))
            ELSE of_month(y, ParseDigits(s, p1, 2))
    IN  of_year(ParseDigits(s, 1, 4))

HmsResult(rv, vals, us) ==
    [rv |-> rv, hour |-> vals[1], minute |-> vals[2], second |-> vals[3],
     microsecond |-> us]

\* the fractional component of parse_hh_mm_ss_ff, from position p
ParseFraction(s, pend, p, vals) ==
    LET len_remains == pend - p
        to_parse    == IF len_remains >= 6 THEN 6 ELSE len_remains
        frac(d) ==
            IF ~d.ok THEN HmsResult(-3, vals, 0)
            ELSE HmsResult(IF At(s, SkipDigits(s, d.next)) # NUL THEN 1 ELSE 0,
                           vals, d.val * Pow10(6 - to_parse))
    IN  frac(ParseDigits(s, p, to_parse))

\* the [HH[:?MM[:?SS]]] loop of parse_hh_mm_ss_ff, component i at position p
RECURSIVE ParseHms(_, _, _, _, _, _)
ParseHms(s, pend, i, p, has_separator, vals) ==
    LET \* what follows component i: the fraction, or the next component
        rest(q, hs, v) ==
            IF i = 2 THEN ParseFraction(s, pend, q, v)
            ELSE ParseHms(s, pend, i + 1, q, hs, v)
        after(c, p1, hs, v) ==
            IF p1 >= pend THEN HmsResult(IF c # NUL THEN 1 ELSE 0, v, 0)
            ELSE IF hs /\ c = ":" THEN rest(p1, hs, v)
            ELSE IF c \in {".", ","} THEN ParseFraction(s, pend, p1, v)
            ELSE IF ~hs THEN rest(p1 - 1, hs, v)
            ELSE HmsResult(-4, v, 0)
        component(d, c) ==
            IF ~d.ok THEN HmsResult(-3, vals, 0)
            ELSE after(c, d.next + 1,
                       IF i = 0 THEN c = ":" ELSE has_separator,
                       [vals EXCEPT ![i + 1] = d.val])
        digits(d) == component(d, At(s, d.next))
    IN  digits(ParseDigits(s, p, 2))

\* parse_hh_mm_ss_ff over positions start .. pend-1
ParseHhMmSsFf(s, start, pend) == ParseHms(s, pend, 0, start, TRUE, <<0, 0, 0>>)

\* first position in start..Len(s) holding Z, + or -, else Len(s)+1
RECURSIVE FindTz(_, _)
FindTz(s, p) ==
    IF p > Len(s) THEN Len(s) + 1
    ELSE IF s[p] \in {"Z", "+", "-"} THEN p
    ELSE FindTz(s, p + 1)

\* parse_isoformat_time from position start: rv 0 naive, 1 aware, < 0 error
ParseIsoTime(s, start) ==
    LET pend == Len(s) + 1
        res(tm, rv, off, offus) ==
            [rv |-> rv, hour |-> tm.hour, minute |-> tm.minute,
             second |-> tm.second, microsecond |-> tm.microsecond,
             tzoffset |-> off, tzmicrosecond |-> offus]
        offset(tm, sign, tz) ==
            res(tm, IF tz.rv # 0 THEN -5 ELSE 1,
                sign * (tz.hour * 3600 + tz.minute * 60 + tz.second),
                sign * tz.microsecond)
        zone(tzpos, tm) ==
            IF tm.rv < 0 THEN res(tm, tm.rv, 0, 0)
            ELSE IF tzpos >= pend THEN res(tm, IF tm.rv = 1 THEN -5 ELSE 0, 0, 0)
            ELSE IF s[tzpos] = "Z"
            THEN res(tm, IF At(s, tzpos + 1) # NUL THEN -5 ELSE 1, 0, 0)
            ELSE offset(tm, IF s[tzpos] = "-" THEN -1 ELSE 1,
                        ParseHhMmSsFf(s, tzpos + 1, pend))
        time(tzpos) == zone(tzpos, ParseHhMmSsFf(s, start, tzpos))
        \* the scan is a do-while: it looks at the first character even
        \* when the time part is empty
    IN  time(IF At(s, start) \in {"Z", "+", "-"} THEN start
             ELSE FindTz(s, start + 1))

\* datetime.fromisoformat(s).  A UTC offset is kept to the second; an offset
\* with a fractional-second part is not represented (no input carries one).
FromIsoFormat(s) ==
    LET invalid == Raise("ValueError", "Invalid isoformat string")
        none    == [rv |-> 0, hour |-> 0, minute |-> 0, second |-> 0,
                    microsecond |-> 0, tzoffset |-> 0, tzmicrosecond |-> 0]
        build(date, time) ==
            IF ~date.ok \/ time.rv < 0 THEN invalid
            ELSE IF time.rv = 1 /\ (time.tzoffset <= -SecondsPerDay
                                    \/ time.tzoffset >= SecondsPerDay)
            THEN Raise("ValueError", "offset must be a timedelta strictly between")
            ELSE IF ~ValidFields(date.year, date.month, date.day, time.hour,
                                 time.minute, time.second, time.microsecond)
            THEN Raise("ValueError", "field out of range")
            ELSE Ok(DateTime(date.year, date.month, date.day, time.hour,
                             time.minute, time.second, time.microsecond,
                             time.rv = 1, time.tzoffset))
        parse(date, len) ==
            build(date, IF date.ok /\ Len(s) > len
                        THEN ParseIsoTime(s, len + 2) ELSE none)
        split(len) ==
            IF Len(s) < 7 \/ len = 0 THEN invalid
            ELSE parse(ParseIsoDate(s, len), len)
    IN  split(FindSeparator(s))

----------------------------------------------------------------------------
(* Python values. *)

NoneVal == [t |-> "none"]

PyStr(s) == [t |-> "str", v |-> s]

PyInt(m, e) == [t |-> "int", m |-> m, e |-> e]

PyFloat(m, e, us) == [t |-> "float", m |-> m, e |-> e, us |-> us]

PyBool(b) == [t |-> "bool", b |-> b]

\* a dict with the contents named d
PyDict(d) == [t |-> "dict", d |-> d]

\* a mapping with the items m (a function on its keys)
PyMapping(m) == [t |-> "mapping", m |-> m]

\* bool(value) of an optional argument
Truthy(value) ==
    IF value.t = "none" THEN FALSE
    ELSE IF value.t = "str" THEN value.v # <<>>
    ELSE TRUE

ZSuffix == <<"Z">>
UtcSuffix == <<"+", "0", "0", ":", "0", "0">>

DEFAULT_TELEMETRY_VERSION == <<"0", ".", "1", ".", "0">>

\* the wall clock at tick 0: 2025-11-12T10:30:00Z as seconds since the epoch
ClockEpoch == 1762943400

\* datetime.now(tz=UTC)
UtcNow == FromTimestamp(PyInt(ClockEpoch + now, 0)).v

----------------------------------------------------------------------------
(* TelemetryEvent and its validators. *)

\* _coerce_timestamp, were a naive date-time value converted from the local zone
\* (value.astimezone(UTC)) instead of being labelled UTC
_coerce_timestamp_local(value) ==
    IF value.t = "datetime"
    THEN (IF value.aware THEN Ok(value) ELSE AsTimezoneUTC(value, tzlocal))
    ELSE IF value.t \in {"int", "float", "bool", "nan", "inf"}
    THEN FromTimestamp(value)
    ELSE IF value.t = "str"
    THEN LET to_utc(parsed) ==
                 IF ~parsed.ok THEN parsed
                 ELSE IF ~parsed.v.aware THEN Ok(ReplaceTzUTC(parsed.v))
                 ELSE AsTimezoneUTC(parsed.v, tzlocal)
             of_iso(iso_value) == to_utc(FromIsoFormat(iso_value))
         IN  of_iso(Replace(value.v, ZSuffix, UtcSuffix))
    ELSE Raise("ValueError", "Unsupported timestamp value")

\* TelemetryEvent._coerce_timestamp
_coerce_timestamp(value) ==
    IF value.t = "datetime"
    THEN Ok(IF value.aware THEN value ELSE ReplaceTzUTC(value))
    ELSE IF value.t \in {"int", "float", "bool", "nan", "inf"}
    THEN FromTimestamp(value)
    ELSE IF value.t = "str"
    THEN LET to_utc(parsed) ==
                 IF ~parsed.ok THEN parsed
                 ELSE IF ~parsed.v.aware THEN Ok(ReplaceTzUTC(parsed.v))
                 ELSE AsTimezoneUTC(parsed.v, tzlocal)
             of_iso(iso_value) == to_utc(FromIsoFormat(iso_value))
         IN  of_iso(Replace(value.v, ZSuffix, UtcSuffix))
    ELSE Raise("ValueError", "Unsupported timestamp value")

\* TelemetryEvent._strip_event_id
_strip_event_id(value) ==
    LET clean == Strip(value)
    IN  IF clean = <<>> THEN Raise("ValueError", "event_id may not be empty")
        ELSE Ok(clean)

\* TelemetryEvent._strip_required_fields
_strip_required_fields(value) ==
    LET clean == Strip(value)
    IN  IF clean = <<>> THEN Raise("ValueError", "source/action cannot be blank")
        ELSE Ok(clean)

\* one line of a ValidationError
LineError(loc, msg) == [loc |-> loc, msg |-> msg]

\* the outcome of validating one field: its value, or its line errors, or an
\* exception the validator let through; ran = the validators evaluated
FieldOk(v, ran) ==
    [st |-> "ok", v |-> v, exc |-> "", errors |-> {}, ran |-> ran]

FieldErr(loc, msg, ran) ==
    [st |-> "err", v |-> NoneVal, exc |-> "ValueError",
     errors |-> {LineError(loc, msg)}, ran |-> ran]

FieldExc(loc, exc, msg, ran) ==
    [st |-> "exc", v |-> NoneVal, exc |-> exc,
     errors |-> {LineError(loc, msg)}, ran |-> ran]

\* a required str field with the "after" validator named
StrField(m, keys, loc, name) ==
    IF \A i \in 1..Len(keys) : keys[i] \notin DOMAIN m
    THEN FieldErr(loc, "Field required", {})
    ELSE LET key   == IF keys[1] \in DOMAIN m THEN keys[1] ELSE keys[2]
             value == m[key]
             validated(r) ==
                 IF r.ok THEN FieldOk(r.v, {name}) ELSE FieldErr(loc, r.msg, {name})
         IN  IF value.t # "str"
             THEN FieldErr(loc, "Input should be a valid string", {})
             ELSE validated(IF name = "_strip_event_id"
                            THEN _strip_event_id(value.v)
                            ELSE _strip_required_fields(value.v))

\* event_id: str = Field(alias="id"), with populate_by_name
EventIdField(m) ==
    StrField(m, <<"id", "event_id">>, "id", "_strip_event_id")

SourceField(m) ==
    StrField(m, <<"source", "source">>, "source", "_strip_required_fields")

ActionField(m) ==
    StrField(m, <<"action", "action">>, "action", "_strip_required_fields")

\* timestamp: datetime, with the "before" validator; an exception that is
\* not a ValueError leaves the validation at once
TimestampField(m) ==
    IF "timestamp" \notin DOMAIN m
    THEN FieldErr("timestamp", "Field required", {})
    ELSE LET validated(r) ==
                 IF r.ok THEN FieldOk(r.v, {"_coerce_timestamp"})
                 ELSE IF r.exc = "ValueError"
                 THEN FieldErr("timestamp", r.msg, {"_coerce_timestamp"})
                 ELSE FieldExc("timestamp", r.exc, r.msg, {"_coerce_timestamp"})
         IN  validated(_coerce_timestamp(m["timestamp"]))

\* payload / metadata: dict[str, Any] = Field(default_factory=dict)
DictField(m, key) ==
    IF key \notin DOMAIN m THEN FieldOk(PyDict("empty"), {})
    ELSE IF m[key].t # "dict"
    THEN FieldErr(key, "Input should be a valid dictionary", {})
    ELSE FieldOk(m[key], {})

\* TelemetryEvent.model_validate(event): the fields in declaration order
model_validate(m) ==
    LET outcome(eid, src, act, ts, pl, md, ran4, errs) ==
            IF ts.st = "exc"
            THEN [st |-> "exc", exc |-> ts.exc, errors |-> ts.errors, ran |-> ran4]
            ELSE IF errs # {}
            THEN [st |-> "err", exc |-> "ValidationError", errors |-> errs,
                  ran |-> ran4]
            ELSE [st |-> "ok", ran |-> ran4,
                  event_id |-> eid.v, source |-> src.v, action |-> act.v,
                  timestamp |-> ts.v, payload |-> pl.v, metadata |-> md.v]
        fields(eid, src, act, ts, pl, md) ==
            outcome(eid, src, act, ts, pl, md,
                    eid.ran \cup src.ran \cup act.ran \cup ts.ran,
                    eid.errors \cup src.errors \cup act.errors \cup ts.errors
                    \cup pl.errors \cup md.errors)
    IN  fields(EventIdField(m), SourceField(m), ActionField(m), TimestampField(m),
               DictField(m, "payload"), DictField(m, "metadata"))

----------------------------------------------------------------------------
(* normalize_payload. *)

\* _ensure_utc
_ensure_utc(dt) == IF dt.aware THEN dt ELSE ReplaceTzUTC(dt)

\* isinstance(event, Mapping)
IsMapping(value) == value.t = "mapping"

Raised(exc, errors, ran) ==
    [kind |-> "raise", exc |-> exc, errors |-> errors, ran |-> ran]

Returned(rec, ran) == [kind |-> "record", rec |-> rec, ran |-> ran]

\* the rendering, were +00:00 left in place
RenderUtc_NoReplace(dt) == IsoFormat(dt)

\* the rendering, were +00:00 replaced by a lower-case z
RenderUtc_Lower(dt) == Replace(IsoFormat(dt), UtcSuffix, <<"z">>)

\* dt.astimezone(UTC).isoformat().replace("+00:00", "Z")
RenderUtc(dt) == Replace(IsoFormat(dt), UtcSuffix, ZSuffix)

\* normalized_ingested_at, were the wall clock read on every call
NormalizedIngestedAt_Now(ingested) == UtcNow

\* normalized_ingested_at
NormalizedIngestedAt(ingested) ==
    IF Truthy(ingested) THEN _ensure_utc(ingested) ELSE UtcNow

\* normalize_payload once the event is known to be a mapping
NormalizeMapping(m, version, ingested) ==
    LET record(model, ts, ia) ==
            IF ~ts.ok
            THEN Raised(ts.exc, {LineError("timestamp", ts.msg)}, model.ran)
            ELSE IF ~ia.ok
            THEN Raised(ia.exc, {LineError("ingested_at", ia.msg)}, model.ran)
            ELSE Returned(
                [telemetry_version |->
                     IF Truthy(version) THEN version.v
                     ELSE DEFAULT_TELEMETRY_VERSION,
                 event_id    |-> model.event_id,
                 source      |-> model.source,
                 action      |-> model.action,
                 timestamp   |-> RenderUtc(ts.v),
                 ingested_at |-> RenderUtc(ia.v),
                 payload     |-> model.payload,
                 metadata    |-> model.metadata],
                model.ran)
        normalized(model) ==
            IF model.st = "err" THEN Raised("ValueError", model.errors, model.ran)
            ELSE IF model.st = "exc" THEN Raised(model.exc, model.errors, model.ran)
            ELSE record(model, AsTimezoneUTC(model.timestamp, tzlocal),
                        AsTimezoneUTC(NormalizedIngestedAt(ingested), tzlocal))
    IN  normalized(model_validate(m))

MappingMessage == LineError("event", "Telemetry event payload must be a mapping")

\* normalize_payload, were the event handed to the schema unchecked: the schema
\* rejects what is no mapping with a ValidationError, re-raised as ValueError
normalize_payload_unchecked(ev, version, ingested) ==
    IF ~IsMapping(ev)
    THEN Raised("ValueError",
                {LineError("event", "Input should be a valid dictionary")}, {})
    ELSE NormalizeMapping(ev.m, version, ingested)

\* normalize_payload(event, telemetry_version=..., ingested_at=...)
normalize_payload(ev, version, ingested) ==
    IF ~IsMapping(ev) THEN Raised("TypeError", {MappingMessage}, {})
    ELSE NormalizeMapping(ev.m, version, ingested)

----------------------------------------------------------------------------
(* The inputs drawn by the calls. *)

Absent == [t |-> "absent"]

\* a mapping of the keys whose value is not Absent
EventOf(idv, eidv, src, act, ts, pl, md) ==
    LET all  == [id |-> idv, event_id |-> eidv, source |-> src, action |-> act,
                 timestamp |-> ts, payload |-> pl, metadata |-> md]
        keys == {k \in DOMAIN all : all[k].t # "absent"}
    IN  PyMapping([k \in keys |-> all[k]])

\* the strings over chars of length 0..n
RECURSIVE StringsUpTo(_, _)
StringsUpTo(chars, n) ==
    IF n = 0 THEN {<<>>}
    ELSE LET shorter == StringsUpTo(chars, n - 1)
         IN  shorter \cup {<<c>> \o s : c \in chars, s \in {x \in shorter : Len(x) = n - 1}}

FieldChars == {" ", "a"}

FieldStrings == StringsUpTo(FieldChars, MaxLen)

\* values of a required str field: strings, a non-string, or no key at all
FieldValues == {PyStr(s) : s \in FieldStrings} \cup {PyInt(5, 0), Absent}

GoodId == PyStr(<<"a", "b", "c">>)
GoodSource == PyStr(<<"l", "a", "b">>)
GoodAction == PyStr(<<"e", "m", "i", "t">>)

\* timestamp strings are built from shapes: a date, a separator, a time cut
\* at a precision (0 date only, 1 HH, 2 HH:MM, 3 HH:MM:SS), a fractional part
\* and a suffix
DateStr(d) == Pad(d[1], 4) \o <<"-">> \o Pad(d[2], 2) \o <<"-">> \o Pad(d[3], 2)

TimeStr(tm, prec) ==
    Pad(tm[1], 2)
    \o (IF prec >= 2 THEN <<":">> \o Pad(tm[2], 2) ELSE <<>>)
    \o (IF prec >= 3 THEN <<":">> \o Pad(tm[3], 2) ELSE <<>>)

TsString(sh) ==
    DateStr(sh.date)
    \o (IF sh.prec = 0 THEN <<>>
        ELSE <<sh.sep>> \o TimeStr(sh.time, sh.prec)
             \o (IF sh.frac # <<>> THEN <<".">> \o sh.frac ELSE <<>>))
    \o sh.suffix

Shape(date, sep, tm, prec, frac, suffix) ==
    [date |-> date, sep |-> sep, time |-> tm, prec |-> prec, frac |-> frac,
     suffix |-> suffix]

Dates == {<<2025, 11, 12>>, <<2024, 2, 29>>, <<1, 1, 1>>, <<9999, 12, 31>>,
          <<2025, 2, 30>>}

Times == {<<10, 30, 0>>, <<23, 59, 59>>, <<0, 0, 0>>}

\* offsets as +HH:MM / -HH:MM
OffsetSuffix(sign, h, mi) == <<sign>> \o Pad(h, 2) \o <<":">> \o Pad(mi, 2)

Suffixes == {ZSuffix, <<>>, UtcSuffix, OffsetSuffix("+", 5, 30),
             OffsetSuffix("-", 5, 0), <<"z">>}

FracPatterns == {<<"1", "2", "3", "4", "5", "6", "7", "8", "9">>,
                 <<"5", "0", "0", "0", "0", "0", "0", "0", "0">>,
                 <<"0", "0", "0", "0", "0", "0", "0", "0", "0">>}

Fracs == {SubSeq(f, 1, n) : f \in FracPatterns, n \in 1..MaxFracLen}

TsShapes ==
    {Shape(d, "T", tm, 3, <<>>, sx) : d \in Dates, tm \in Times, sx \in Suffixes}
    \cup {Shape(<<2025, 11, 12>>, sep, <<10, 30, 0>>, prec, <<>>, sx) :
              sep \in {"T", " "}, prec \in 1..3,
              sx \in {ZSuffix, <<>>, OffsetSuffix("+", 5, 30)}}
    \cup {Shape(<<2025, 11, 12>>, "T", tm, 3, f, sx) :
              tm \in {<<10, 30, 0>>, <<23, 59, 59>>}, f \in Fracs,
              sx \in {ZSuffix, OffsetSuffix("+", 5, 30)}}
    \cup {Shape(d, "T", <<0, 0, 0>>, 0, <<>>, sx) :
              d \in Dates, sx \in {ZSuffix, <<>>}}

\* each shape with the string it builds
TsTable == {<<TsString(sh), sh>> : sh \in TsShapes}

\* strings outside the shapes: empty, not a date, a week date, the basic format
OddStrings ==
    {<<>>, <<"n", "o", "w">>,
     <<"2", "0", "2", "5", "-", "W", "4", "6", "-", "3", "T",
       "1", "0", ":", "3", "0", ":", "0", "0", "Z">>,
     <<"2", "0", "2", "5", "1", "1", "1", "2", "T",
       "1", "0", "3", "0", "0", "0", "Z">>}

TsStrings == {p[1] : p \in TsTable} \cup OddStrings

\* numeric epochs: plain seconds, and the powers of ten up to 10^MaxExp
Epochs ==
    {PyInt(1700000000, 0), PyInt(0, 0), PyInt(-1, 0)}
    \cup {PyInt(sg, e) : sg \in {1, -1}, e \in 9..MaxExp}
    \cup {PyFloat(1700000000, 0, 500000), PyFloat(-2, 0, 500000),
          PyFloat(1, MaxExp, 0), [t |-> "nan"], [t |-> "inf"]}

\* structured date-time values: naive, UTC, and with an offset
OffsetsSec == {0, 19800, -18000}

DateTimes ==
    {DateTime(d[1], d[2], d[3], tm[1], tm[2], tm[3], tm[4], aw, off) :
         d \in {<<2025, 11, 12>>, <<1, 1, 1>>, <<9999, 12, 31>>},
         tm \in {<<10, 30, 0, 0>>, <<23, 59, 59, 500000>>},
         aw \in {TRUE}, off \in OffsetsSec}
    \cup {DateTime(d[1], d[2], d[3], tm[1], tm[2], tm[3], tm[4], FALSE, 0) :
         d \in {<<2025, 11, 12>>, <<1, 1, 1>>, <<9999, 12, 31>>},
         tm \in {<<10, 30, 0, 0>>, <<23, 59, 59, 500000>>}}

\* values of no accepted type
OtherValues == {[t |-> "object"], [t |-> "list"], NoneVal}

Timestamps ==
    {PyStr(s) : s \in TsStrings} \cup Epochs \cup {PyBool(TRUE), PyBool(FALSE)}
    \cup DateTimes \cup OtherValues

\* a few timestamps, one of each outcome
GoodTimestamp ==
    PyStr(TsString(Shape(<<2025, 11, 12>>, "T", <<10, 30, 0>>, 3, <<>>, ZSuffix)))

FewTimestamps ==
    {GoodTimestamp, [t |-> "object"], PyInt(1, MaxExp), PyBool(TRUE),
     DateTime(2025, 11, 12, 8, 45, 0, 0, FALSE, 0)}

Versions == {NoneVal, PyStr(<<>>), PyStr(<<"c", "u", "s", "t", "o", "m">>)}

IngestedAts ==
    {NoneVal,
     DateTime(2025, 11, 12, 8, 45, 0, 0, FALSE, 0),
     DateTime(2025, 11, 12, 8, 45, 0, 0, TRUE, 0),
     DateTime(2025, 11, 12, 8, 45, 0, 250000, TRUE, 19800),
     DateTime(1, 1, 1, 0, 0, 0, 0, TRUE, 19800)}

Payloads == {<<Absent, Absent>>, <<PyDict("foo"), PyDict("observer")>>,
             <<[t |-> "list"], Absent>>, <<Absent, PyStr(<<"x">>)>>}

\* events that are no mapping: a list, a scalar, a string, None
NonMappings == {[t |-> "list"], PyInt(7, 0), PyStr(<<"i", "d">>), NoneVal}

CallOf(ev, version, ingested) ==
    [event |-> ev, telemetry_version |-> version, ingested_at |-> ingested]

Calls ==
    \* every timestamp, in an otherwise valid event
    {CallOf(EventOf(GoodId, Absent, GoodSource, GoodAction, ts, Absent, Absent),
            NoneVal, NoneVal) : ts \in Timestamps}
    \* the optional arguments and the optional fields
    \cup {CallOf(EventOf(GoodId, Absent, GoodSource, GoodAction, ts, pm[1], pm[2]),
                 v, ia) :
              ts \in FewTimestamps, pm \in Payloads, v \in Versions,
              ia \in IngestedAts}
    \* the required fields: present or not, blank or not, a string or not
    \cup {CallOf(EventOf(idv, eidv, src, act, ts, Absent, Absent), NoneVal, NoneVal) :
              idv \in FieldValues, eidv \in {Absent, PyStr(<<" ", "e">>)},
              src \in FieldValues,
              act \in {Absent, PyStr(<<"a">>), PyStr(<<" ">>), PyStr(<<"a", " ">>)},
              ts \in {Absent, GoodTimestamp, PyInt(1, MaxExp)}}
    \* events of the wrong shape
    \cup {CallOf(ev, v, ia) : ev \in NonMappings, v \in Versions, ia \in IngestedAts}

\* the platform's local zone, as minutes east of UTC
LocalOffsets == {0, 60}

----------------------------------------------------------------------------
(* The state machine: a caller calls normalize_payload, may call it again   *)
(* with the same arguments later, or feed the record it got back in.        *)

NoResult == [kind |-> "none"]

Init ==
    /\ pc = "idle"
    /\ event = NoneVal
    /\ telemetry_version = NoneVal
    /\ ingested_at = NoneVal
    /\ now = 0
    /\ tzlocal \in LocalOffsets
    /\ result = NoResult
    /\ first = NoResult
    /\ firstAt = 0

\* normalize_payload(event, telemetry_version=..., ingested_at=...)
Call ==
    /\ pc = "idle"
    /\ \E c \in Calls :
        /\ event' = c.event
        /\ telemetry_version' = c.telemetry_version
        /\ ingested_at' = c.ingested_at
        /\ result' = normalize_payload(c.event, c.telemetry_version, c.ingested_at)
    /\ pc' = "called"
    /\ firstAt' = now
    /\ UNCHANGED <<now, tzlocal, first>>

\* the wall clock advances
Tick ==
    /\ now < MaxTicks
    /\ now' = now + 1
    /\ UNCHANGED <<pc, event, telemetry_version, ingested_at, tzlocal, result,
                   first, firstAt>>

\* the same call again, at the current wall-clock time
Repeat ==
    /\ pc = "called"
    /\ first' = result
    /\ result' = normalize_payload(event, telemetry_version, ingested_at)
    /\ pc' = "repeated"
    /\ UNCHANGED <<event, telemetry_version, ingested_at, now, tzlocal, firstAt>>

\* the canonical record renamed to the input schema (event_id back to id)
AsInput(rec) ==
    PyMapping([id |-> PyStr(rec.event_id), source |-> PyStr(rec.source),
               action |-> PyStr(rec.action), timestamp |-> PyStr(rec.timestamp),
               payload |-> rec.payload, metadata |-> rec.metadata,
               telemetry_version |-> PyStr(rec.telemetry_version),
               ingested_at |-> PyStr(rec.ingested_at)])

\* normalize_payload on its own output
Refeed ==
    /\ pc = "called"
    /\ result.kind = "record"
    /\ event' = AsInput(result.rec)
    /\ first' = result
    /\ result' = normalize_payload(AsInput(result.rec), telemetry_version, ingested_at)
    /\ pc' = "refed"
    /\ UNCHANGED <<telemetry_version, ingested_at, now, tzlocal, firstAt>>

Next == Call \/ Tick \/ Repeat \/ Refeed

Spec == Init /\ [][Next]_vars

----------------------------------------------------------------------------
(* What the claims speak of. *)

\* the state holds the outcome of a call of normalize_payload on event
Called == pc # "idle"

IsRecord == result.kind = "record"

RecordFields == {"telemetry_version", "event_id", "source", "action",
                 "timestamp", "ingested_at", "payload", "metadata"}

\* TypeInvalid: a TypeError
TypeInvalid == result.kind = "raise" /\ result.exc = "TypeError"

\* SchemaInvalid citing loc: a ValueError with that line
SchemaInvalid(loc, msg) ==
    /\ result.kind = "raise"
    /\ result.exc = "ValueError"
    /\ LineError(loc, msg) \in result.errors

\* TimestampInvalid: a ValueError with a line on the timestamp's value
TimestampInvalid ==
    /\ result.kind = "raise"
    /\ result.exc = "ValueError"
    /\ \E e \in result.errors : e.loc = "timestamp" /\ e.msg # "Field required"

HasKey(k) == IsMapping(event) /\ k \in DOMAIN event.m

\* the input value of event_id: under the alias id, else under its name
InputIdKey == IF HasKey("id") THEN "id" ELSE "event_id"

\* an instant: <<ordinal day, second of the day, microsecond>>
Instant(ord, sod, us) == <<ord + sod \div SecondsPerDay, sod % SecondsPerDay, us>>

\* the instant of a date-time value, a naive one being UTC
InstantOfDateTime(dt) ==
    Instant(Ymd2Ord(dt.year, dt.month, dt.day),
            dt.hour * 3600 + dt.minute * 60 + dt.second
            - (IF dt.aware THEN dt.offset ELSE 0),
            dt.microsecond)

\* the instant of m * 10^e seconds (+ us microseconds) after the epoch
InstantOfEpoch(n) ==
    LET us == IF n.t = "float" THEN n.us ELSE 0
    IN  IF n.e >= 2
        THEN Instant(EpochOrdinal + (n.m * Pow10(n.e - 2)) \div 864,
                     ((n.m * Pow10(n.e - 2)) % 864) * 100, us)
        ELSE Instant(EpochOrdinal, n.m * Pow10(n.e), us)

SuffixOffset(sx) ==
    IF sx = OffsetSuffix("+", 5, 30) THEN 19800
    ELSE IF sx = OffsetSuffix("-", 5, 0) THEN -18000
    ELSE 0

\* the instant a timestamp string built from shape sh denotes: the fields it
\* spells out, the rest zero, the fraction cut to microseconds, Z and no
\* suffix read as UTC
InstantOfShape(sh) ==
    LET n  == IF Len(sh.frac) > 6 THEN 6 ELSE Len(sh.frac)
        us == IF sh.prec = 3 THEN ToNat(SubSeq(sh.frac, 1, n)) * Pow10(6 - n) ELSE 0
        h  == IF sh.prec >= 1 THEN sh.time[1] ELSE 0
        mi == IF sh.prec >= 2 THEN sh.time[2] ELSE 0
        sc == IF sh.prec >= 3 THEN sh.time[3] ELSE 0
    IN  Instant(Ymd2Ord(sh.date[1], sh.date[2], sh.date[3]),
                h * 3600 + mi * 60 + sc - SuffixOffset(sh.suffix), us)

\* s reads YYYY-MM-DDTHH:MM:SS[.ffffff]Z
IsCanonical(s) ==
    /\ Len(s) \in {20, 27}
    /\ \A i \in {1, 2, 3, 4, 6, 7, 9, 10, 12, 13, 15, 16, 18, 19} : IsDigit(s[i])
    /\ s[5] = "-" /\ s[8] = "-" /\ s[11] = "T" /\ s[14] = ":" /\ s[17] = ":"
    /\ s[Len(s)] = "Z"
    /\ Len(s) = 27 => s[20] = "." /\ \A i \in 21..26 : IsDigit(s[i])

\* the instant a canonical string denotes
InstantOfCanonical(s) ==
    Instant(Ymd2Ord(ToNat(SubSeq(s, 1, 4)), ToNat(SubSeq(s, 6, 7)),
                    ToNat(SubSeq(s, 9, 10))),
            ToNat(SubSeq(s, 12, 13)) * 3600 + ToNat(SubSeq(s, 15, 16)) * 60
            + ToNat(SubSeq(s, 18, 19)),
            IF Len(s) = 27 THEN ToNat(SubSeq(s, 21, 26)) ELSE 0)

\* s denotes instant i in the canonical rendering
Denotes(s, i) == IsCanonical(s) /\ InstantOfCanonical(s) = i

----------------------------------------------------------------------------
(* The claims. *)

\* C1: a call whose event is no mapping (a list, a scalar, a string, None)
\* raises TypeError with the mapping message and nothing else, and no field
\* validator has been evaluated, whatever telemetry_version and ingested_at are.
C1_TypeInvalidBeforeValidation ==
    (Called /\ ~IsMapping(event)) =>
        result = Raised("TypeError", {MappingMessage}, {})

C1_Witness ==
    /\ pc = "called"
    /\ event.t = "list"
    /\ telemetry_version.t = "str"
    /\ ingested_at.t = "datetime"
    /\ TypeInvalid
    /\ result.ran = {}

\* C2 (as claimed): a mapping lacking one of the required fields (id under
\* either of its names, source, action, timestamp) raises a ValueError naming
\* each missing field, and a record is returned only when all are present.
C2_Claimed ==
    LET missing == {k \in {"source", "action", "timestamp"} : ~HasKey(k)}
                   \cup (IF HasKey("id") \/ HasKey("event_id") THEN {} ELSE {"id"})
    IN  (Called /\ IsMapping(event) /\ missing # {}) =>
            /\ ~IsRecord
            /\ \A k \in missing : SchemaInvalid(k, "Field required")

\* C3 (as claimed): every call ends in a record of all eight fields or in a
\* TypeError or ValueError.
C3_Claimed ==
    Called =>
        \/ IsRecord /\ DOMAIN result.rec = RecordFields
        \/ result.kind = "raise" /\ result.exc \in {"TypeError", "ValueError"}

C5_Claimed ==
    (Called /\ HasKey("timestamp") /\ event.m["timestamp"].t = "bool") =>
        TimestampInvalid

\* s is a date and a time with a Z suffix: hours and minutes, with or without
\* seconds, with or without a fractional part
ZSuffixedDateTime(s) ==
    \E p \in TsTable : p[1] = s /\ p[2].prec >= 2 /\ p[2].suffix = ZSuffix

\* C6 (as claimed): for a valid input whose timestamp is an ISO-8601 string
\* with a Z suffix (with or without seconds, with a fractional part of any
\* length or none), the output timestamp is the input string.
C6_Claimed ==
    (Called /\ IsRecord /\ event.m["timestamp"].t = "str"
        /\ ZSuffixedDateTime(event.m["timestamp"].v)) =>
        result.rec.timestamp = event.m["timestamp"].v

\* the string is what normalize_payload itself renders: canonical, and the
\* six-digit fraction, if any, not all zeros
AlreadyCanonical(s) ==
    /\ IsCanonical(s)
    /\ Len(s) = 27 => SubSeq(s, 21, 26) # <<"0", "0", "0", "0", "0", "0">>

\* C6 (amended): for a valid input whose timestamp string is already in the
\* canonical rendering (YYYY-MM-DDTHH:MM:SS, then nothing or a six-digit
\* fraction that is not all zeros, then Z), the output timestamp is the input
\* string, character for character.
C6_CanonicalRoundTrip ==
    (Called /\ IsRecord /\ event.m["timestamp"].t = "str"
        /\ AlreadyCanonical(event.m["timestamp"].v)) =>
        result.rec.timestamp = event.m["timestamp"].v

C6_Witness ==
    /\ pc = "called"
    /\ IsRecord
    /\ event.m["timestamp"].t = "str"
    /\ AlreadyCanonical(event.m["timestamp"].v)
    /\ Len(event.m["timestamp"].v) = 27
    /\ result.rec.timestamp = event.m["timestamp"].v

\* C7: normalize_payload on its own record, event_id renamed to id, returns a
\* record with the same timestamp, event_id, source and action.
C7_Idempotent ==
    pc = "refed" =>
        /\ IsRecord
        /\ result.rec.timestamp = first.rec.timestamp
        /\ result.rec.event_id = first.rec.event_id
        /\ result.rec.source = first.rec.source
        /\ result.rec.action = first.rec.action

C7_Witness ==
    /\ pc = "refed"
    /\ IsRecord
    /\ Len(first.rec.timestamp) = 27
    /\ result.rec.timestamp = first.rec.timestamp

\* the input value of a required str field, when it is a string
InputStr(k) == event.m[k].v

Blank(k) == HasKey(k) /\ event.m[k].t = "str" /\ Strip(event.m[k].v) = <<>>

\* C8 (as claimed): a returned event_id, source and action are the stripped
\* input values and never empty; a blank one makes the call raise a ValueError
\* with 'event_id may not be empty' or 'source/action cannot be blank'.
C8_Claimed ==
    Called =>
        /\ IsRecord =>
               /\ result.rec.event_id = Strip(InputStr(InputIdKey))
               /\ result.rec.source = Strip(InputStr("source"))
               /\ result.rec.action = Strip(InputStr("action"))
               /\ \A k \in {"event_id", "source", "action"} :
                      Strip(result.rec[k]) # <<>>
        /\ Blank(InputIdKey) => SchemaInvalid("id", "event_id may not be empty")
        /\ Blank("source") => SchemaInvalid("source", "source/action cannot be blank")
        /\ Blank("action") => SchemaInvalid("action", "source/action cannot be blank")

\* C9: a supplied ingested_at comes out as that value in UTC (a naive one taken
\* as UTC), and the same call made again at a later wall-clock time has the
\* same outcome; without one, ingested_at is the wall clock at the call.
C9_IngestedAtOverride ==
    /\ (Called /\ IsRecord /\ ingested_at.t = "datetime") =>
           Denotes(result.rec.ingested_at, InstantOfDateTime(ingested_at))
    /\ (pc = "repeated" /\ ingested_at.t = "datetime") => result = first
    /\ (pc = "called" /\ IsRecord /\ ingested_at.t = "none") =>
           Denotes(result.rec.ingested_at,
                   InstantOfEpoch(PyInt(ClockEpoch + firstAt, 0)))

C9_Witness ==
    /\ pc = "repeated"
    /\ now > firstAt
    /\ IsRecord
    /\ ingested_at.t = "datetime"
    /\ ingested_at.aware /\ ingested_at.offset # 0
    /\ result = first

\* C10 (as claimed): the output telemetry_version is the supplied string, the
\* empty string included, and the default only when none is supplied.
C10_Claimed ==
    (Called /\ IsRecord) =>
        result.rec.telemetry_version =
            IF telemetry_version.t = "str" THEN telemetry_version.v
            ELSE DEFAULT_TELEMETRY_VERSION

====
